---- MODULE Spec2Model ----
(***************************************************************************)
(* django-termsandconditions, termsandconditions/views.py.                 *)
(*                                                                         *)
(* The model follows AcceptTermsView.post statement by statement (one      *)
(* action per database or cache round trip, so that concurrent requests    *)
(* interleave where they can in a deployment) and GetTermsViewMixin's      *)
(* get_terms and get_return_to.  The models module (TermsAndConditions,    *)
(* UserTermsAndConditions) is not part of views.py; its class methods and  *)
(* the uniqueness constraint of UserTermsAndConditions are modelled from   *)
(* the specification's sections 3 and 4.                                   *)
(*                                                                         *)
(* Python values: a str is a sequence of one-character strings, None is    *)
(* the value None below, an optional URL parameter is <<>> (absent) or     *)
(* <<v>>, a queryset is the sequence of the primary keys of its rows.      *)
(***************************************************************************)
EXTENDS Integers, Sequences, FiniteSets, TLC

VARIABLES
    terms_table,        \* the TermsAndConditions rows (set of records)
    records,            \* the UserTermsAndConditions rows, in insertion order
    cache,              \* django.core.cache: key -> [value, timeout]
    cache_up,           \* whether the cache backend answers
    store_ip,           \* settings.TERMS_STORE_IP_ADDRESS
    nreq,               \* number of POST requests started so far
    request,            \* per request slot: the request post() serves
    pc,                 \* per request slot: position in post()
    user,               \* post(): user ("" while the request has none)
    terms_ids,          \* post(): request.POST.getlist("terms")
    idx,                \* post(): position of the for loop in terms_ids
    ip_address,         \* post(): ip_address
    return_url,         \* post(): return_url
    not_agreed_terms,   \* post(): not_agreed_terms, once evaluated
    outcomes,           \* post(): what each processed id came to (history)
    response,           \* post(): the response, or the exception that left it
    terms               \* get_terms(): the value last returned

vars == <<terms_table, records, cache, cache_up, store_ip, nreq, request, pc, user,
          terms_ids, idx, ip_address, return_url, not_agreed_terms, outcomes,
          response, terms>>

post_vars == <<request, pc, user, terms_ids, idx, ip_address, return_url,
               not_agreed_terms, outcomes, response>>

(***************************************************************************)
(* Bounds of the model.                                                    *)
(***************************************************************************)
\* longest list of ids one POST carries
MaxBatch == 3
\* longest list of ids one POST carries when two requests run concurrently
MaxRaceBatch == 2
\* POST requests started in one behaviour
MaxRequests == 2
\* POST requests started in one behaviour of the concurrent specification
MaxRaceRequests == 2
\* longest raw address value
MaxAddrLen == 3
\* longest list of ids one POST carries where the sender of the request varies
MaxWhoBatch == 1

(***************************************************************************)
(* Program constants.                                                      *)
(***************************************************************************)
TERMS_CACHE_SECONDS == 30

\* Python's None, kept apart from every str value
None == <<"None">>

\* timezone.now(), fixed for the length of a behaviour
Now == 5

(***************************************************************************)
(* The tables.                                                             *)
(***************************************************************************)
\* slugs in ascending (collation) order
Slugs == <<"a", "b", "c">>

SlugRank(s) == CHOOSE i \in 1..Len(Slugs) : Slugs[i] = s

Term(id, slug, version, date) ==
    [id |-> id, slug |-> slug, version_number |-> version, date_active |-> date]

\* Every TermsAndConditions row a table may hold.  date_active is <<>> (NULL)
\* or <<d>>.  Rows 2 and 4 share (slug, version_number); row 5 is dated in the
\* future; row 6 is not dated.  No two dated rows of a slug share a date.
AllTerms ==
    { Term(1, "a", 1, <<1>>), Term(2, "a", 2, <<3>>), Term(3, "b", 1, <<2>>),
      Term(4, "a", 2, <<2>>), Term(5, "a", 3, <<9>>), Term(6, "c", 1, <<>>) }

Users == {"alice", "bob"}

\* TermsAndConditions.objects.filter(pk=pk)
TermsByPk(tt, pk) == {t \in tt : t.id = pk}

SetToSeqBy(S, rank(_)) ==
    LET RECURSIVE build(_)
        build(R) == IF R = {} THEN <<>>
                    ELSE LET m == CHOOSE x \in R : \A y \in R : rank(x) <= rank(y)
                         IN  <<m>> \o build(R \ {m})
    IN build(S)

Range(s) == {s[i] : i \in DOMAIN s}

\* the decimal digits int() and Decimal() read
DecimalValue == [c \in {"1", "2", "3", "9"} |-> CASE c = "1" -> 1 [] c = "2" -> 2
                                                  [] c = "3" -> 3 [] c = "9" -> 9]

\* int(terms_id): <<n>>, or <<>> where Python raises ValueError
PyInt(s) == IF s \in DOMAIN DecimalValue THEN <<DecimalValue[s]>> ELSE <<>>

(***************************************************************************)
(* models.TermsAndConditions, from the specification (4.1, 4.3).           *)
(***************************************************************************)
\* rows whose date_active is set and not in the future
Dated(tt) == {t \in tt : t.date_active # <<>> /\ t.date_active[1] <= Now}

\* TermsAndConditions.get_active(slug): <<pk>>, or <<>> for DoesNotExist
get_active(tt, slug) ==
    LET mine == {t \in Dated(tt) : t.slug = slug}
        top  == {t \in mine : \A o \in mine : o.date_active[1] <= t.date_active[1]}
    IN  IF top = {} THEN <<>> ELSE <<(CHOOSE t \in top : TRUE).id>>

SlugOfPk(tt, pk) == (CHOOSE t \in tt : t.id = pk).slug

\* TermsAndConditions.get_active_terms_list(): the active row of every slug
\* that has one, ordered by slug
get_active_terms_list(tt) ==
    SetToSeqBy({get_active(tt, Slugs[i])[1] :
                   i \in {j \in 1..Len(Slugs) : get_active(tt, Slugs[j]) # <<>>}},
               LAMBDA pk : SlugRank(SlugOfPk(tt, pk)))

(***************************************************************************)
(* The queryset post() builds, lines 138-144.                              *)
(***************************************************************************)
\* UserTermsAndConditions.objects.filter(user=user): the matching row numbers
UserTermsNoFilter(recs, u) == DOMAIN recs
UserTermsOfUser(recs, u) == {i \in DOMAIN recs : recs[i].user = u}

\* queryset.exclude(userterms__in=rows)
Exclude(q, recs, rows) ==
    SelectSeq(q, LAMBDA pk : ~ \E i \in rows : recs[i].terms = pk)

\* queryset.order_by("slug"), a stable insertion sort
RECURSIVE OrderBySlug(_, _)
OrderBySlug(tt, q) ==
    IF q = <<>> THEN <<>>
    ELSE LET rest == OrderBySlug(tt, Tail(q))
             h    == Head(q)
             k    == Cardinality({i \in DOMAIN rest :
                         SlugRank(SlugOfPk(tt, rest[i])) < SlugRank(SlugOfPk(tt, h))})
         IN  SubSeq(rest, 1, k) \o <<h>> \o SubSeq(rest, k + 1, Len(rest))

NotAgreedQuery(tt, recs, u) ==
    OrderBySlug(tt, Exclude(get_active_terms_list(tt), recs, UserTermsOfUser(recs, u)))

(***************************************************************************)
(* The address post() records, lines 120-128.                              *)
(***************************************************************************)
\* "," in ip_address
HasComma(s) == \E i \in DOMAIN s : s[i] = ","

\* ip_address.split(",")[0]
SplitFirst(s) ==
    IF HasComma(s)
    THEN SubSeq(s, 1, (CHOOSE i \in DOMAIN s : s[i] = "," /\ \A j \in 1..(i - 1) : s[j] # ",") - 1)
    ELSE s

\* str.strip()
RECURSIVE Strip(_)
Strip(s) ==
    IF s = <<>> THEN s
    ELSE IF Head(s) = " " THEN Strip(Tail(s))
    ELSE IF s[Len(s)] = " " THEN Strip(SubSeq(s, 1, Len(s) - 1))
    ELSE s

\* lines 125-126, for a str
ClientIpUnstripped(raw) == IF HasComma(raw) THEN SplitFirst(raw) ELSE raw
ClientIp(raw) == IF HasComma(raw) THEN Strip(SplitFirst(raw)) ELSE raw

(***************************************************************************)
(* GetTermsViewMixin.get_return_to, lines 49-57.                           *)
(***************************************************************************)
\* django.utils.http.url_has_allowed_host_and_scheme, on the URLs of the model
is_safe_url(url) == url \in {"/", "/next", "/a b"}

\* django.utils.encoding.iri_to_uri, on the URLs of the model
iri_to_uri(url) == IF url = "/a b" THEN "/a%20b" ELSE url

get_return_to(returnTo) ==
    LET return_to == IF returnTo = <<>> THEN "/" ELSE returnTo[1]
    IN  IF is_safe_url(return_to) THEN iri_to_uri(return_to) ELSE "/"

(***************************************************************************)
(* The cache and the acceptance table.                                     *)
(***************************************************************************)
\* "tandc.not_agreed_terms_" + user.get_username(), line 146
CacheKey(username) == "tandc.not_agreed_terms_" \o username

CacheKeys == {CacheKey(u) : u \in Users}

\* cache.set(key, value, timeout) on a backend that answers
CacheWith(c, key, value, timeout) ==
    [k \in DOMAIN c \cup {key} |->
        IF k = key THEN [value |-> value, timeout |-> timeout] ELSE c[k]]

\* the entry is dropped (its timeout elapsed)
CacheWithout(c, key) == [k \in DOMAIN c \ {key} |-> c[k]]

\* NotAgreedResolver.resolve (specification 4.3): every active version for an
\* anonymous caller, else the active versions the user has no record for
resolve(tt, recs, u) ==
    IF u = "AnonymousUser" THEN get_active_terms_list(tt)
    ELSE NotAgreedQuery(tt, recs, u)

\* what TermsAndConditions.get_active_terms_not_agreed_to(user) returns
\* (specification 4.3, resolveCached): the cached value on a hit, else resolve
resolveCached(tt, recs, c, up, u) ==
    IF u # "AnonymousUser" /\ up /\ CacheKey(u) \in DOMAIN c
    THEN c[CacheKey(u)].value
    ELSE resolve(tt, recs, u)

\* the unique (user, terms) constraint of UserTermsAndConditions
\* (specification 3): whether an insert of (u, pk) is refused
Duplicate(recs, u, pk) == \E i \in DOMAIN recs : recs[i].user = u /\ recs[i].terms = pk

\* new_user_terms.save() when the constraint lets it through; date_accepted is
\* the logical time of the insert
Insert(recs, u, pk, ip) ==
    Append(recs, [user |-> u, terms |-> pk, ip_address |-> ip,
                  date_accepted |-> Len(recs) + 1])

(***************************************************************************)
(* AcceptTermsView.post, lines 100-153.                                    *)
(***************************************************************************)
Redirect(url) == [kind |-> "redirect", to |-> url]
Exception(exc) == [kind |-> "exception", to |-> exc]
NoResponse == [kind |-> "none", to |-> ""]

\* except IntegrityError, line 150
CaughtNever(exc) == FALSE
Caught(exc) == exc = "IntegrityError"

\* the user of an unauthenticated request, lines 114-116: the session's
\* partial_pipeline user pk
PipelineUserPkFirst(req) == CHOOSE u \in Users : TRUE
PipelineUserPk(req) == req.partial_pipeline[1]

\* where the loop resumes after the except clause: the try is inside the loop
\* body (lines 130-131), so with the next id
ResumeAfterCatchBreak(i, n) == n + 1
ResumeAfterCatch(i, n) == i + 1

\* the for loop moves to position next, or post() returns (line 153)
Advance(p, next) ==
    /\ idx' = [idx EXCEPT ![p] = next]
    /\ IF next <= Len(terms_ids[p])
       THEN /\ pc' = [pc EXCEPT ![p] = "loop"]
            /\ UNCHANGED response
       ELSE /\ pc' = [pc EXCEPT ![p] = "done"]
            /\ response' = [response EXCEPT ![p] = Redirect(return_url[p])]

\* an exception raised inside the try of lines 131-151
RaiseInTry(p, exc) ==
    IF Caught(exc)
    THEN /\ Advance(p, ResumeAfterCatch(idx[p], Len(terms_ids[p])))
         /\ outcomes' = [outcomes EXCEPT ![p] = Append(@, "AlreadyAccepted")]
    ELSE /\ pc' = [pc EXCEPT ![p] = "done"]
         /\ response' = [response EXCEPT ![p] = Exception(exc)]
         /\ UNCHANGED <<idx, outcomes>>

\* lines 104-128: the request is read, and post() either returns at once or
\* enters the loop.  req is the request: request.user, the session's
\* partial_pipeline user, POST's terms and returnTo, and the META value under
\* the configured header name.
StartPost(p, req) ==
    /\ pc[p] \in {"idle", "done"}
    /\ nreq' = nreq + 1
    /\ request' = [request EXCEPT ![p] = req]
    /\ LET url == get_return_to(req.returnTo)
           authenticated == req.user # "AnonymousUser"
           raw == req.meta
           sender == IF authenticated THEN req.user ELSE PipelineUserPk(req)
           leave(resp, u) ==
               /\ pc' = [pc EXCEPT ![p] = "done"]
               /\ response' = [response EXCEPT ![p] = resp]
               /\ user' = [user EXCEPT ![p] = u]
               /\ ip_address' = [ip_address EXCEPT ![p] = <<>>]
       IN  /\ return_url' = [return_url EXCEPT ![p] = url]
           /\ terms_ids' = [terms_ids EXCEPT ![p] = req.terms]
           /\ idx' = [idx EXCEPT ![p] = 1]
           /\ outcomes' = [outcomes EXCEPT ![p] = <<>>]
           /\ not_agreed_terms' = [not_agreed_terms EXCEPT ![p] = <<>>]
           /\ IF req.terms = <<>>
              THEN leave(Redirect(url), "")
              ELSE IF ~authenticated /\ req.partial_pipeline = <<>>
              THEN leave(Redirect("/"), "")
              ELSE IF ~authenticated /\ PipelineUserPk(req) \notin Users
              THEN leave(Exception("DoesNotExist"), "")
              ELSE IF store_ip /\ raw = None
              THEN leave(Exception("TypeError"), sender)
              ELSE /\ user' = [user EXCEPT ![p] = sender]
                   /\ ip_address' = [ip_address EXCEPT ![p] =
                                  IF store_ip THEN ClientIp(raw) ELSE <<>>]
                   /\ pc' = [pc EXCEPT ![p] = "loop"]
                   /\ response' = [response EXCEPT ![p] = NoResponse]
    /\ UNCHANGED <<terms_table, records, cache, cache_up, store_ip, terms>>

\* lines 132-137: the terms row is fetched by primary key and the acceptance
\* row is inserted
Save(p) ==
    /\ pc[p] = "loop"
    /\ LET n == PyInt(terms_ids[p][idx[p]])
       IN  IF n = <<>>
           THEN RaiseInTry(p, "ValueError") /\ UNCHANGED records
           ELSE IF TermsByPk(terms_table, n[1]) = {}
           THEN RaiseInTry(p, "DoesNotExist") /\ UNCHANGED records
           ELSE IF Duplicate(records, user[p], n[1])
           THEN RaiseInTry(p, "IntegrityError") /\ UNCHANGED records
           ELSE /\ records' = Insert(records, user[p], n[1], ip_address[p])
                /\ outcomes' = [outcomes EXCEPT ![p] = Append(@, "Ok")]
                /\ pc' = [pc EXCEPT ![p] = "evaluate"]
                /\ UNCHANGED <<idx, response>>
    /\ UNCHANGED <<terms_table, cache, cache_up, store_ip, nreq, request, user,
                   terms_ids, ip_address, return_url, not_agreed_terms, terms>>

\* lines 138-144: the queryset is evaluated (when cache.set serialises it)
Evaluate(p) ==
    /\ pc[p] = "evaluate"
    /\ not_agreed_terms' = [not_agreed_terms EXCEPT ![p] =
                               NotAgreedQuery(terms_table, records, user[p])]
    /\ pc' = [pc EXCEPT ![p] = "set"]
    /\ UNCHANGED <<terms_table, records, cache, cache_up, store_ip, nreq, request,
                   user, terms_ids, idx, ip_address, return_url, outcomes, response,
                   terms>>

\* lines 145-149: the value is written to the cache; a backend that does not
\* answer raises
CacheSet(p) ==
    /\ pc[p] = "set"
    /\ IF cache_up
       THEN /\ cache' = CacheWith(cache, CacheKey(user[p]), not_agreed_terms[p],
                                  TERMS_CACHE_SECONDS)
            /\ Advance(p, idx[p] + 1)
            /\ UNCHANGED outcomes
       ELSE /\ RaiseInTry(p, "CacheUnavailable")
            /\ UNCHANGED cache
    /\ UNCHANGED <<terms_table, records, cache_up, store_ip, nreq, request, user,
                   terms_ids, ip_address, return_url, not_agreed_terms, terms>>

(***************************************************************************)
(* GetTermsViewMixin.get_terms, lines 30-47.                               *)
(***************************************************************************)
\* queryset.latest("date_active"): the row dated last.  Where rows with and
\* without a date meet, the dated ones are taken to come last in date order;
\* AllTerms holds no such pair under one (slug, version_number).
Earliest(rows) ==
    CHOOSE t \in rows : \A o \in rows :
        \/ o.date_active = <<>>
        \/ t.date_active # <<>> /\ t.date_active[1] <= o.date_active[1]
Latest(rows) ==
    CHOOSE t \in rows : \A o \in rows :
        \/ o.date_active = <<>>
        \/ t.date_active # <<>> /\ o.date_active[1] <= t.date_active[1]

\* Python truth of kwargs.get(name): None and "" are false
Truthy(opt) == opt # <<>> /\ opt[1] # ""

Returned(kw, u, value) ==
    [slug |-> kw.slug, version |-> kw.version, user |-> u, kind |-> "list",
     value |-> value, exc |-> ""]
Raised(kw, u, exc) ==
    [slug |-> kw.slug, version |-> kw.version, user |-> u, kind |-> "exception",
     value |-> <<>>, exc |-> exc]

\* get_terms(kwargs) for request.user = u.  The last branch is
\* TermsAndConditions.get_active_terms_not_agreed_to(user), which stores what
\* it computes on a cache miss (specification 4.3).
GetTerms(u, kw) ==
    /\ IF Truthy(kw.slug) /\ Truthy(kw.version)
       THEN LET rows == {t \in terms_table :
                            /\ t.slug = kw.slug[1]
                            /\ t.version_number = DecimalValue[kw.version[1]]}
            IN  /\ terms' = IF rows = {} THEN Raised(kw, u, "DoesNotExist")
                            ELSE Returned(kw, u, <<Latest(rows).id>>)
                /\ UNCHANGED cache
       ELSE IF Truthy(kw.slug)
       THEN /\ terms' = IF get_active(terms_table, kw.slug[1]) = <<>>
                        THEN Raised(kw, u, "DoesNotExist")
                        ELSE Returned(kw, u, get_active(terms_table, kw.slug[1]))
            /\ UNCHANGED cache
       ELSE /\ terms' = Returned(kw, u, resolveCached(terms_table, records, cache, cache_up, u))
            /\ cache' = IF u # "AnonymousUser" /\ cache_up /\ CacheKey(u) \notin DOMAIN cache
                        THEN CacheWith(cache, CacheKey(u), resolve(terms_table, records, u),
                                       TERMS_CACHE_SECONDS)
                        ELSE cache
    /\ UNCHANGED <<terms_table, records, cache_up, store_ip, nreq, post_vars>>

(***************************************************************************)
(* The environment.                                                        *)
(***************************************************************************)
\* an entry's timeout elapses
CacheExpire(key) ==
    /\ key \in DOMAIN cache
    /\ cache' = CacheWithout(cache, key)
    /\ UNCHANGED <<terms_table, records, cache_up, store_ip, nreq, post_vars, terms>>

\* the cache backend stops answering
CacheFail ==
    /\ cache_up
    /\ cache_up' = FALSE
    /\ UNCHANGED <<terms_table, records, cache, store_ip, nreq, post_vars, terms>>

\* the cache backend answers again
CacheRecover ==
    /\ ~cache_up
    /\ cache_up' = TRUE
    /\ UNCHANGED <<terms_table, records, cache, store_ip, nreq, post_vars, terms>>

(***************************************************************************)
(* Specifications.                                                         *)
(***************************************************************************)
Slots == {"r1", "r2"}

Seqs(S, n) == UNION {[1..k -> S] : k \in 0..n}

NoTerms == [slug |-> <<>>, version |-> <<>>, user |-> "", kind |-> "none",
            value |-> <<>>, exc |-> ""]

Request(u, pipeline, ids, meta, returnTo) ==
    [user |-> u, partial_pipeline |-> pipeline, terms |-> ids, meta |-> meta,
     returnTo |-> returnTo]

NoRequest == Request("", <<>>, <<>>, <<>>, <<>>)

InitWith(tables, settings) ==
    /\ terms_table \in tables
    /\ store_ip \in settings
    /\ records = <<>>
    /\ cache = <<>>
    /\ cache_up = TRUE
    /\ nreq = 0
    /\ request = [p \in Slots |-> NoRequest]
    /\ pc = [p \in Slots |-> "idle"]
    /\ user = [p \in Slots |-> ""]
    /\ terms_ids = [p \in Slots |-> <<>>]
    /\ idx = [p \in Slots |-> 1]
    /\ ip_address = [p \in Slots |-> <<>>]
    /\ return_url = [p \in Slots |-> "/"]
    /\ not_agreed_terms = [p \in Slots |-> <<>>]
    /\ outcomes = [p \in Slots |-> <<>>]
    /\ response = [p \in Slots |-> NoResponse]
    /\ terms = NoTerms

\* who sends a request: a signed-in user, or an anonymous one with or without
\* a partial_pipeline user (one that exists or not) in the session
SignedIn == Users \X {<<>>}
Anonymous == {"AnonymousUser"} \X ({<<>>} \cup {<<k>> : k \in Users \cup {"ghost"}})

Requests(who, batches, metas, returnTos) ==
    {Request(w[1], w[2], ids, meta, returnTo) :
        w \in who, ids \in batches, meta \in metas, returnTo \in returnTos}

\* one request at a time, of one signed-in user, with any batch of ids that
\* exist ("1", "2") or not ("9"); the cache may fail and recover
MainRequests ==
    Requests({<<"alice", <<>>>>}, Seqs({"1", "2", "9"}, MaxBatch),
             {<<"1">>, <<"2", ",", " ", "1">>}, {<<>>})

Init == InitWith({AllTerms}, {TRUE})

Next ==
    \/ \E req \in MainRequests : nreq < MaxRequests /\ StartPost("r1", req)
    \/ Save("r1")
    \/ Evaluate("r1")
    \/ CacheSet("r1")
    \/ \E key \in CacheKeys : CacheExpire(key)
    \/ CacheFail
    \/ CacheRecover

Spec == Init /\ [][Next]_vars

\* two requests at a time, of either signed-in user, over the ids of the two
\* versions of slug "a"
RaceRequests ==
    Requests(SignedIn, Seqs({"1", "2"}, MaxRaceBatch) \ {<<>>}, {<<"1">>}, {<<>>})

NextRace ==
    \/ \E p \in Slots, req \in RaceRequests :
          nreq < MaxRaceRequests /\ StartPost(p, req)
    \/ \E p \in Slots : Save(p)
    \/ \E p \in Slots : Evaluate(p)
    \/ \E p \in Slots : CacheSet(p)

SpecRace == Init /\ [][NextRace]_vars

\* one request at a time, of any sender, with any returnTo; "x" is an id that
\* is no number
WhoRequests ==
    Requests(SignedIn \cup Anonymous, Seqs({"1", "2", "x"}, MaxWhoBatch), {<<"1">>},
             {<<>>, <<"/next">>, <<"/a b">>, <<"//evil.example/">>})

NextWho ==
    \/ \E req \in WhoRequests : nreq < MaxRequests /\ StartPost("r1", req)
    \/ Save("r1")
    \/ Evaluate("r1")
    \/ CacheSet("r1")

SpecWho == Init /\ [][NextWho]_vars

\* META.get(header name): None, or any str over a digit, the comma and the
\* blank, up to MaxAddrLen characters
AddrValues == Seqs({"1", ",", " "}, MaxAddrLen) \cup {None}

IpRequests ==
    Requests({<<"alice", <<>>>>}, {<<"1">>, <<"1", "2">>}, AddrValues, {<<>>})

InitIp == InitWith({AllTerms}, BOOLEAN)

NextIp ==
    \/ \E req \in IpRequests : nreq < MaxRequests /\ StartPost("r1", req)
    \/ Save("r1")
    \/ Evaluate("r1")
    \/ CacheSet("r1")

SpecIp == InitIp /\ [][NextIp]_vars

\* get_terms over tables of rows, between the requests of one user
TermsRequests == Requests({<<"alice", <<>>>>}, {<<"1">>, <<"2">>}, {<<"1">>}, {<<>>})

\* the tables that lack at most two of the rows of AllTerms
TermsTables == {T \in SUBSET AllTerms : Cardinality(AllTerms \ T) <= 2}

Kwargs ==
    [slug : {<<>>, <<"">>, <<"a">>, <<"b">>, <<"c">>},
     version : {<<>>, <<"1">>, <<"2">>, <<"3">>}]

InitTerms == InitWith(TermsTables, {TRUE})

NextTerms ==
    \/ \E req \in TermsRequests : nreq < MaxRequests /\ StartPost("r1", req)
    \/ Save("r1")
    \/ Evaluate("r1")
    \/ CacheSet("r1")
    \/ \E u \in {"alice", "AnonymousUser"}, kw \in Kwargs : GetTerms(u, kw)
    \/ \E key \in CacheKeys : CacheExpire(key)

SpecTerms == InitTerms /\ [][NextTerms]_vars

(***************************************************************************)
(* Properties.                                                             *)
(***************************************************************************)
\* the primary key a posted id names
PkAt(p, k) == PyInt(terms_ids[p][k])[1]

\* the positions of a slot's batch whose id names a row of the table
ValidAt(p) ==
    {k \in DOMAIN terms_ids[p] :
        /\ PyInt(terms_ids[p][k]) # <<>>
        /\ \E t \in terms_table : t.id = PyInt(terms_ids[p][k])[1]}

\* the acceptance rows of u
RowsOfUser(recs, u) == {i \in DOMAIN recs : recs[i].user = u}

\* the acceptance rows of (u, pk)
RowsOf(recs, u, pk) == {i \in DOMAIN recs : recs[i].user = u /\ recs[i].terms = pk}

\* C1: whatever the interleaving of concurrent post() calls, no (user, terms)
\* pair has more than one acceptance row; the call that finds the pair taken
\* has the IntegrityError absorbed (outcome AlreadyAccepted) and ends with its
\* redirect, never with the exception.
C1_OneRowPerUserAndTerms ==
    /\ \A u \in Users, t \in AllTerms : Cardinality(RowsOf(records, u, t.id)) <= 1
    /\ \A p \in Slots :
          /\ response[p] # Exception("IntegrityError")
          /\ \A k \in DOMAIN outcomes[p] :
                outcomes[p][k] = "AlreadyAccepted"
                    => /\ RowsOf(records, user[p], PkAt(p, k)) # {}
                       /\ idx[p] > k
          /\ pc[p] = "done" /\ user[p] # ""
                => /\ response[p] = Redirect(return_url[p])
                   /\ Len(outcomes[p]) = Len(terms_ids[p])

\* two calls of one user overlap on an id: one has just inserted its row and
\* is still at work, the other found the row there and has returned
C1_Witness ==
    \E p \in Slots : \E q \in Slots \ {p} :
        /\ user[p] = user[q]
        /\ pc[p] \in {"evaluate", "set"}
        /\ pc[q] = "done"
        /\ response[q].kind = "redirect"
        /\ \E k \in DOMAIN outcomes[q] :
              /\ outcomes[q][k] = "AlreadyAccepted"
              /\ terms_ids[q][k] = terms_ids[p][idx[p]]

\* the not-agreed list the store gives for u, stated from the rows: the active
\* version of every slug that has one and that u holds no row for, by slug
IsNotAgreedOf(q, u) ==
    /\ \A i \in DOMAIN q, j \in DOMAIN q :
          i < j => SlugRank(SlugOfPk(terms_table, q[i])) < SlugRank(SlugOfPk(terms_table, q[j]))
    /\ Range(q) =
          {t.id : t \in {t \in terms_table :
              /\ t.date_active # <<>>
              /\ t.date_active[1] <= Now
              /\ \A o \in terms_table :
                    (o.slug = t.slug /\ o.date_active # <<>> /\ o.date_active[1] <= Now)
                        => o.date_active[1] <= t.date_active[1]
              /\ ~ \E i \in DOMAIN records :
                    records[i].user = u /\ records[i].terms = t.id}}

\* C9 (as claimed): once two calls of one user on different ids have both
\* returned, the user's cache entry is the not-agreed list of the store.
C9_CacheFreshAfterBothReturn ==
    \A p \in Slots : \A q \in Slots \ {p} :
        ( /\ pc[p] = "done" /\ pc[q] = "done"
          /\ user[p] # "" /\ user[p] = user[q]
          /\ Range(terms_ids[p]) \cap Range(terms_ids[q]) = {} )
        => /\ CacheKey(user[p]) \in DOMAIN cache
           /\ IsNotAgreedOf(cache[CacheKey(user[p])].value, user[p])

C2_ReturnStep ==
    \A p \in Slots :
        ( /\ pc[p] # "done" /\ pc'[p] = "done"
          /\ user'[p] # "" /\ response'[p].kind = "redirect" )
        => \A k \in DOMAIN terms_ids'[p] :
              RowsOf(records', user'[p], PyInt(terms_ids'[p][k])[1]) # {}
                  => PyInt(terms_ids'[p][k])[1] \notin
                         Range(resolveCached(terms_table', records', cache', cache_up', user'[p]))

\* C2 (as claimed): at the step on which post() returns its redirect, what
\* get_active_terms_not_agreed_to(user) would return next holds none of the
\* posted ids the user has a row for.
C2_FreshAfterAcceptAll == [][C2_ReturnStep]_vars

\* C5: in every state the list post() evaluates for the cache, and the list
\* resolve gives for every user, is the active version of each slug less the
\* versions the user holds a row for, in slug order; a row for an older
\* version of a slug does not take the slug's active version out.
C5_NotAgreedIsActiveMinusAccepted ==
    /\ \A u \in Users : IsNotAgreedOf(resolve(terms_table, records, u), u)
    /\ \A p \in Slots : pc[p] = "set" => IsNotAgreedOf(not_agreed_terms[p], user[p])

\* bob holds a row for version 1 of slug "a" only, alice one for its active
\* version 2: the list evaluated for bob still starts with version 2
C5_Witness ==
    \E p \in Slots :
        /\ pc[p] = "set"
        /\ user[p] = "bob"
        /\ {records[i].terms : i \in RowsOfUser(records, "bob")} = {1}
        /\ RowsOf(records, "alice", 2) # {}
        /\ not_agreed_terms[p] = <<2, 3>>

\* a call that has entered the loop and come to its end
Finished(p) == pc[p] = "done" /\ user[p] # "" /\ response[p] # Exception("TypeError")

\* C3 (as claimed): a batch with an id that names no row ends with its
\* redirect, and every id of it that names a row has been recorded.
C3_BadIdSkipped ==
    \A p \in Slots :
        ( /\ Finished(p)
          /\ ValidAt(p) # DOMAIN terms_ids[p]
          /\ response[p] # Exception("CacheUnavailable") )
        => /\ response[p] = Redirect(return_url[p])
           /\ \A k \in ValidAt(p) : RowsOf(records, user[p], PkAt(p, k)) # {}

\* C6 (as claimed): a cache backend that does not answer never fails the
\* request, and every id that names a row is recorded all the same.
C6_CacheFailureAbsorbed ==
    \A p \in Slots :
        /\ response[p] # Exception("CacheUnavailable")
        /\ (Finished(p) /\ ValidAt(p) = DOMAIN terms_ids[p])
              => /\ response[p] = Redirect(return_url[p])
                 /\ \A k \in ValidAt(p) : RowsOf(records, user[p], PkAt(p, k)) # {}

\* the step on which slot p handles the id at its loop position
Handles(p) ==
    /\ pc[p] = "loop"
    /\ <<pc[p], idx[p], outcomes[p], response[p]>>' # <<pc[p], idx[p], outcomes[p], response[p]>>

C4_Step ==
    \A p \in Slots :
        (Handles(p) /\ idx[p] \in ValidAt(p)) =>
            IF RowsOf(records, user[p], PkAt(p, idx[p])) = {}
            THEN /\ outcomes'[p] = Append(outcomes[p], "Ok")
                 /\ Len(records') = Len(records) + 1
                 /\ SubSeq(records', 1, Len(records)) = records
                 /\ records'[Len(records')].user = user[p]
                 /\ records'[Len(records')].terms = PkAt(p, idx[p])
                 /\ records'[Len(records')].ip_address = ip_address[p]
            ELSE /\ outcomes'[p] = Append(outcomes[p], "AlreadyAccepted")
                 /\ records' = records
                 /\ response'[p].kind # "exception"
                 /\ idx'[p] = idx[p] + 1
                 /\ IF idx[p] < Len(terms_ids[p])
                    THEN pc'[p] = "loop"
                    ELSE response'[p] = Redirect(return_url[p])

C4_State ==
    \A p \in Slots : \A k \in DOMAIN outcomes[p] :
        /\ (\E j \in 1..(k - 1) : terms_ids[p][j] = terms_ids[p][k])
              => outcomes[p][k] = "AlreadyAccepted"
        /\ Cardinality(RowsOf(records, user[p], PkAt(p, k))) = 1
        /\ \A i \in DOMAIN records : records[i].date_accepted = i

\* C4: an id whose (user, terms) row is not there yet is recorded (Ok); one
\* whose row is there already, from this batch or an earlier call, comes to
\* AlreadyAccepted: no exception, no row added or changed (address and date of
\* the first row stay), and the loop goes on to the next id of the batch.
C4_Idempotent == [](C4_State) /\ [][C4_Step]_vars

\* a second call finds version 1 recorded under another address, leaves that
\* row as it is and goes on to record version 2
C4_Witness ==
    \E p \in Slots :
        /\ Finished(p)
        /\ terms_ids[p] = <<"1", "2">>
        /\ outcomes[p] = <<"AlreadyAccepted", "Ok">>
        /\ response[p].kind = "redirect"
        /\ records[1].terms = 1
        /\ records[1].ip_address # ip_address[p]
        /\ records[2].terms = 2

\* the return target of a request, as the view documents it
ReturnTarget(returnTo) ==
    CASE returnTo = <<"/next">> -> "/next"
      [] returnTo = <<"/a b">> -> "/a%20b"
      [] OTHER -> "/"

\* who a request's acceptances are for
Sender(req) == IF req.user # "AnonymousUser" THEN req.user ELSE req.partial_pipeline[1]

NothingToRecord(req) ==
    req.terms = <<>> \/ (req.user = "AnonymousUser" /\ req.partial_pipeline = <<>>)

C10_Step ==
    /\ (nreq' = nreq + 1 /\ NothingToRecord(request'["r1"]))
          => /\ records' = records
             /\ cache' = cache
             /\ pc'["r1"] = "done"
             /\ response'["r1"] =
                   Redirect(IF request'["r1"].terms = <<>>
                            THEN ReturnTarget(request'["r1"].returnTo) ELSE "/")
    /\ \A i \in DOMAIN records' \ DOMAIN records :
          records'[i].user = Sender(request["r1"])

C10_State ==
    ( /\ pc["r1"] = "done"
      /\ response["r1"].kind = "redirect"
      /\ ~NothingToRecord(request["r1"]) )
    => /\ user["r1"] = Sender(request["r1"])
       /\ \A k \in ValidAt("r1") : RowsOf(records, Sender(request["r1"]), PkAt("r1", k)) # {}

\* C10: a request with an empty id list, or of an anonymous sender without a
\* partial_pipeline user, adds no row and writes no cache entry, and is
\* answered at once by a redirect (to the return target, to "/"); every row
\* a request adds is for its sender, the partial_pipeline user of an
\* anonymous one.
C10_NothingToRecord == [](C10_State) /\ [][C10_Step]_vars

\* an anonymous request whose session names bob has version 2 recorded for
\* bob, after a request of alice
C10_Witness ==
    /\ pc["r1"] = "done"
    /\ request["r1"].user = "AnonymousUser"
    /\ request["r1"].partial_pipeline = <<"bob">>
    /\ response["r1"] = Redirect("/next")
    /\ Len(records) = 2
    /\ records[1].user = "alice"
    /\ records[2].user = "bob"

\* ip is s without the blanks around it
Trimmed(ip, s) ==
    /\ ip # <<>> => (ip[1] # " " /\ ip[Len(ip)] # " ")
    /\ \E a \in 0..Len(s) :
          /\ a + Len(ip) <= Len(s)
          /\ SubSeq(s, a + 1, a + Len(ip)) = ip
          /\ \A i \in (1..a) \cup ((a + Len(ip) + 1)..Len(s)) : s[i] = " "

\* the address the claim derives from the raw value
DerivedFrom(ip, raw) ==
    IF ~store_ip THEN ip = <<>>
    ELSE IF \E i \in DOMAIN raw : raw[i] = ","
    THEN \E c \in DOMAIN raw :
            /\ raw[c] = ","
            /\ \A j \in 1..(c - 1) : raw[j] # ","
            /\ Trimmed(ip, SubSeq(raw, 1, c - 1))
    ELSE ip = raw

\* the rows a call has added carry the address derived from its raw value
C7_AddressDerived ==
    \A p \in Slots :
        (user[p] # "" /\ request[p].meta # None) =>
            /\ DerivedFrom(ip_address[p], request[p].meta)
            /\ \A k \in DOMAIN outcomes[p] :
                  outcomes[p][k] = "Ok" =>
                      \A i \in RowsOf(records, user[p], PkAt(p, k)) :
                          records[i].ip_address = ip_address[p]

\* a request without the address value, or with an empty one, is served
C7_MissingAddressServed ==
    \A p \in Slots :
        (pc[p] = "done" /\ request[p].terms # <<>> /\ request[p].meta \in {None, <<>>})
            => response[p].kind = "redirect"

\* C7 (as claimed): the recorded address is the first comma-separated entry
\* of the raw value without the blanks around it, the raw value itself when it
\* has no comma, the empty string when addresses are not stored; a missing or
\* empty raw value does not fail the request.
C7_RecordedAddress == C7_AddressDerived /\ C7_MissingAddressServed

\* the rows of the table with the slug and the version number of the call
RowsOfVersion(slug, version) ==
    {t \in terms_table : t.slug = slug /\ t.version_number = DecimalValue[version]}

\* the dated, not future rows of a slug
RowsInForce(slug) ==
    {t \in terms_table : t.slug = slug /\ t.date_active # <<>> /\ t.date_active[1] <= Now}

====
